---- MODULE Spec2Model ----
(***************************************************************************)
(* DiagnosisPredictionModel (ml-features/models/diagnosis_prediction.py)   *)
(* as a state machine.  The state is the object's fields; each public      *)
(* method is one action.  The scikit-learn estimators are modelled by the  *)
(* part of their fitted state the class reads back (feature names and      *)
(* counts, classes_, whether an attribute exists); what they compute from  *)
(* the data (accuracies, probabilities, importances) is drawn from bounded *)
(* sets.                                                                   *)
(***************************************************************************)
EXTENDS Integers, Sequences, FiniteSets, TLC

(* ---------------------------------------------------------------- bounds *)

\* number of distinct diagnosis labels a training dataset can hold
MaxLabels == 2
\* accuracies are k / MaxAcc for k in 0..MaxAcc
MaxAcc == 1
\* train() calls in one behaviour
MaxTrains == 2
\* method calls in one behaviour
MaxCalls == 3
\* largest top_k passed to predict()
MaxTopK == 2
\* probabilities are k / ProbUnits for k in 0..ProbUnits
ProbUnits == 2

(* ------------------------------------------------------- the class roster *)

\* self.models, in dict (insertion) order
Roster == <<"random_forest", "gradient_boost", "logistic_regression">>

RosterNames == {Roster[i] : i \in 1..Len(Roster)}

\* self.best_model = None
None == "None"

\* type(m).__name__ of the instance stored under roster key m
TypeName(m) ==
    CASE m = "random_forest" -> "RandomForestClassifier"
      [] m = "gradient_boost" -> "GradientBoostingClassifier"
      [] m = "logistic_regression" -> "LogisticRegression"
      [] OTHER -> "NoneType"

\* str.lower() on the type names above
Lower(s) ==
    CASE s = "RandomForestClassifier" -> "randomforestclassifier"
      [] s = "GradientBoostingClassifier" -> "gradientboostingclassifier"
      [] s = "LogisticRegression" -> "logisticregression"
      [] OTHER -> "nonetype"

\* hasattr(model, 'feature_importances_'): the two tree ensembles
HasFeatureImportances(m) == m \in {"random_forest", "gradient_boost"}

\* hasattr(model, 'predict_proba'): all three scikit-learn classifiers
HasPredictProba(m) == m \in RosterNames

(* ------------------------------------------------------------ Python dict *)
\* A dict is the sequence of its [key, value] items in insertion order.

Keys(d) == [i \in 1..Len(d) |-> d[i].key]

HasKey(d, k) == \E i \in 1..Len(d) : d[i].key = k

Get(d, k) == d[CHOOSE i \in 1..Len(d) : d[i].key = k].value

\* d[k] = v: an existing key keeps its place, a new key goes last
Put(d, k, v) ==
    IF HasKey(d, k)
    THEN [i \in 1..Len(d) |-> IF d[i].key = k THEN [key |-> k, value |-> v] ELSE d[i]]
    ELSE Append(d, [key |-> k, value |-> v])

Range(s) == {s[i] : i \in 1..Len(s)}

Min(a, b) == IF a <= b THEN a ELSE b

Max(a, b) == IF a >= b THEN a ELSE b

(* ------------------------------------------------------------------ data *)

\* feature columns of the sample data; the dtype of a column is fixed
Columns == {"age", "gender"}

NumericColumns == {"age"}

\* select_dtypes(include=['object'])
IsObject(col) == col \notin NumericColumns

\* the feature columns of a training DataFrame, in order; 'diagnosis' is its
\* last column
Datasets ==
    {ds \in UNION {[1..n -> Columns] : n \in 1..Cardinality(Columns)} :
        \A i, j \in 1..Len(ds) : i # j => ds[i] # ds[j]}

\* the values a categorical feature column holds in training data, sorted
CategoryValues == <<"F", "M">>

\* diagnosis labels, sorted as LabelEncoder (np.unique) sorts them
DiagnosisNames == <<"diabetes", "flu", "hypertension", "migraine", "viral_infection">>

\* the label sets of the training datasets: the first n labels, n in 1..MaxLabels
LabelSets == {1..n : n \in 1..MaxLabels}

\* the sorted labels of a set of label indices
RECURSIVE SortedLabels(_)
SortedLabels(S) ==
    IF S = {} THEN <<>>
    ELSE LET m == CHOOSE x \in S : \A y \in S : x <= y
         IN <<DiagnosisNames[m]>> \o SortedLabels(S \ {m})

(* ----------------------------------------------------------------- state *)

VARIABLES
    models,               \* fitted state of each roster instance (self.models)
    scaler,               \* self.scaler
    label_encoders,       \* self.label_encoders
    feature_importance,   \* self.feature_importance
    best_model,           \* self.best_model: None or a reference to a roster instance
    model_performance,    \* self.model_performance
    checks_feature_names, \* whether the installed scikit-learn rejects misnamed columns
    calls,                \* number of method calls so far
    run,                  \* number of train() calls so far
    completed,            \* number of train() calls that returned their report
    perf_run,             \* the run that wrote each model_performance entry (0: none)
    fi_run,               \* the run that wrote each feature_importance entry (0: none)
    call,                 \* the last call: method, arguments, how it ended
    handed,               \* the columns the last predict() handed to scaler.transform
    returned              \* what the last call returned

serving == <<models, scaler, label_encoders, feature_importance, best_model,
             model_performance>>

vars == <<models, scaler, label_encoders, feature_importance, best_model,
          model_performance, checks_feature_names, calls, run, completed, perf_run,
          fi_run, call, handed, returned>>

\* an estimator on which fit has not run
Unfitted == [fitted |-> FALSE, n_features_in |-> 0, classes |-> <<>>]

NoCall == [op |-> "init", outcome |-> "returned", top_k |-> 0, data |-> <<>>,
           failed |-> 0]

NotHanded == [made |-> FALSE, columns |-> <<>>]

Nothing == [predictions |-> <<>>, best_model |-> "", best_accuracy |-> 0,
            feature_importance |-> <<>>, key_factors |-> <<>>]

Init ==
    /\ models = [m \in RosterNames |-> Unfitted]
    /\ scaler = [fitted |-> FALSE, feature_names_in |-> <<>>]
    /\ label_encoders = <<>>
    /\ feature_importance = <<>>
    /\ best_model = None
    /\ model_performance = <<>>
    /\ checks_feature_names \in BOOLEAN
    /\ calls = 0
    /\ run = 0
    /\ completed = 0
    /\ perf_run = [m \in RosterNames |-> 0]
    /\ fi_run = [m \in RosterNames |-> 0]
    /\ call = NoCall
    /\ handed = NotHanded
    /\ returned = Nothing

(* ------------------------------------------------------- preprocess_data *)

\* LabelEncoder.fit_transform: classes_ is the sorted distinct values
FitEncoder(values) == [classes |-> values]

\* the loop over categorical_columns, from column i on
RECURSIVE EncodeColumns(_, _, _, _)
EncodeColumns(le, cols, i, labels) ==
    IF i > Len(cols) THEN le
    ELSE IF ~IsObject(cols[i]) THEN EncodeColumns(le, cols, i + 1, labels)
    ELSE IF cols[i] # "diagnosis"
         THEN EncodeColumns(Put(le, cols[i], FitEncoder(CategoryValues)), cols, i + 1, labels)
         ELSE EncodeColumns(Put(le, "diagnosis", FitEncoder(SortedLabels(labels))),
                            cols, i + 1, labels)

\* X = data.drop('diagnosis', axis=1): the remaining columns, in order
DropDiagnosis(cols) == SelectSeq(cols, LAMBDA c : c # "diagnosis")

\* StandardScaler.fit_transform(X): records the columns it was fitted on
FitScaler(X) == [fitted |-> TRUE, feature_names_in |-> X]

\* the fields preprocess_data leaves behind for a dataset with feature columns
\* ds and the diagnosis labels `labels`
preprocess_data(le, ds, labels) ==
    LET data == ds \o <<"diagnosis">>
    IN [label_encoders |-> EncodeColumns(le, data, 1, labels),
        scaler |-> FitScaler(DropDiagnosis(data))]

(* ------------------------------------------------------------------ train *)

\* model.fit(X_train, y_train): the instance learns the number of features
\* and the class codes of y_train (the stratified split keeps every class)
Fit(n_features, n_classes) ==
    [fitted |-> TRUE, n_features_in |-> n_features,
     classes |-> [i \in 1..n_classes |-> i - 1]]

\* model.feature_importances_ over n features: sample weights, rising with the
\* column index for the random forest and falling for gradient boosting
Importances(name, n) ==
    [i \in 1..n |-> IF name = "random_forest" THEN i ELSE n + 1 - i]

\* dict(zip(columns, model.feature_importances_))
ZipDict(columns, values) ==
    [i \in 1..Len(columns) |-> [key |-> columns[i], value |-> values[i]]]

\* if accuracy > best_score
Better(accuracy, best_score) == accuracy > best_score

\* One pass of the loop body for roster entry i, on the loop's state st.
TrainStep(st, i, ds, labels, acc, r) ==
    LET name == Roster[i]
        better == Better(acc[name], st.best_score)
    IN [models |-> [st.models EXCEPT ![name] = Fit(Len(ds), Cardinality(labels))],
        model_performance |->
            Put(st.model_performance, name, [accuracy |-> acc[name]]),
        perf_run |-> [st.perf_run EXCEPT ![name] = r],
        best_score |-> IF better THEN acc[name] ELSE st.best_score,
        best_model |-> IF better THEN name ELSE st.best_model,
        feature_importance |->
            IF HasFeatureImportances(name)
            THEN Put(st.feature_importance, name,
                     ZipDict(ds, Importances(name, Len(ds))))
            ELSE st.feature_importance,
        fi_run |-> IF HasFeatureImportances(name)
                   THEN [st.fi_run EXCEPT ![name] = r] ELSE st.fi_run]

\* for name, model in self.models.items(): from entry i on; the fit of entry
\* failAt raises and ends the loop there
RECURSIVE TrainLoop(_, _, _, _, _, _, _)
TrainLoop(st, i, ds, labels, acc, r, failAt) ==
    IF i > Len(Roster) \/ i = failAt THEN st
    ELSE TrainLoop(TrainStep(st, i, ds, labels, acc, r), i + 1,
                   ds, labels, acc, r, failAt)

\* train(data): failAt = i in 1..3 when the call raises in pass i of the loop
\* before that pass stored anything (in model.fit; for i = 1 also in
\* train_test_split before the loop), Len(Roster) + 1 when nothing raises
Train(ds, labels, acc, failAt) ==
    /\ run < MaxTrains
    /\ calls < MaxCalls
    /\ calls' = calls + 1
    /\ LET pre == preprocess_data(label_encoders, ds, labels)
           st0 == [models |-> models, model_performance |-> model_performance,
                   perf_run |-> perf_run, best_score |-> 0, best_model |-> best_model,
                   feature_importance |-> feature_importance, fi_run |-> fi_run]
           st == TrainLoop(st0, 1, ds, labels, acc, run + 1, failAt)
           ok == failAt > Len(Roster)
       IN /\ label_encoders' = pre.label_encoders
          /\ scaler' = pre.scaler
          /\ models' = st.models
          /\ model_performance' = st.model_performance
          /\ best_model' = st.best_model
          /\ feature_importance' = st.feature_importance
          /\ perf_run' = st.perf_run
          /\ fi_run' = st.fi_run
          /\ run' = run + 1
          /\ completed' = IF ok THEN completed + 1 ELSE completed
          /\ call' = [NoCall EXCEPT !.op = "train",
                                    !.outcome = IF ok THEN "returned" ELSE "raised",
                                    !.data = ds, !.failed = failAt]
          /\ handed' = NotHanded
          /\ returned' = IF ok
                         THEN [Nothing EXCEPT !.best_model = TypeName(st.best_model),
                                              !.best_accuracy = st.best_score]
                         ELSE Nothing
    /\ UNCHANGED checks_feature_names

(* ---------------------------------------------------------------- predict *)

\* a patient record: a value for some of the columns.  "M" is a category the
\* encoders saw in training, "X" one they did not see
RecordValues(col) == IF IsObject(col) THEN {"M", "X"} ELSE {"40"}

Records ==
    {rec \in UNION {[S -> {"M", "X", "40"}] : S \in SUBSET Columns} :
        \A c \in DOMAIN rec : rec[c] \in RecordValues(c)}

\* top_k is any int; negative values reach the slice at line 129 too
TopKs == (0 - 1)..MaxTopK

\* predict_proba(X)[0] for a model with n classes: n probabilities summing to 1
RECURSIVE SumSeq(_)
SumSeq(s) == IF s = <<>> THEN 0 ELSE s[1] + SumSeq(Tail(s))

ProbaVectors(n) == {p \in [1..n -> 0..ProbUnits] : SumSeq(p) = ProbUnits}

\* encoder.transform(value) raises ValueError for a value outside classes_
Transformable(encoder, value) == value \in Range(encoder.classes)

\* the encoder after encoder.transform(...): transform leaves classes_ alone
EncoderAfterRefit(encoder, value) == [classes |-> <<value>>]

EncoderAfterTransform(encoder, value) == encoder

\* self.label_encoders after the loop at lines 110-112 over a record
EncodersAfterPredict(le, rec) ==
    [i \in 1..Len(le) |->
        IF le[i].key # "diagnosis" /\ le[i].key \in DOMAIN rec
        THEN [key |-> le[i].key,
              value |-> EncoderAfterTransform(le[i].value, rec[le[i].key])]
        ELSE le[i]]

\* expected_columns = [col for col in self.label_encoders.keys() if col != 'diagnosis']
ExpectedColumns(le) == SelectSeq(Keys(le), LAMBDA c : c # "diagnosis")

\* scaler.transform(X) accepts X: the column count must be the fitted one, and
\* a scikit-learn that checks feature names wants the fitted names in order
ScalerAccepts(sc, columns, strict) ==
    /\ sc.fitted
    /\ Len(columns) = Len(sc.feature_names_in)
    /\ strict => columns = sc.feature_names_in

\* np.argsort(p): the indices of p by ascending value, equal values in index order
ArgSort(p) ==
    LET rank(i) == 1 + Cardinality({j \in 1..Len(p) :
                        p[j] < p[i] \/ (p[j] = p[i] /\ j < i)})
    IN [r \in 1..Len(p) |-> CHOOSE i \in 1..Len(p) : rank(i) = r]

\* s[::-1]
Reverse(s) == [i \in 1..Len(s) |-> s[Len(s) + 1 - i]]

\* s[:k], with Python's reading of a negative k
SliceTo(s, k) ==
    IF k >= 0 THEN SubSeq(s, 1, Min(k, Len(s))) ELSE SubSeq(s, 1, Max(0, Len(s) + k))

\* top_indices = np.argsort(probabilities)[::-1][:top_k]
TopIndicesAscending(probabilities, top_k) == SliceTo(ArgSort(probabilities), top_k)

TopIndices(probabilities, top_k) == SliceTo(Reverse(ArgSort(probabilities)), top_k)

\* diagnosis_encoder.inverse_transform([code]) raises for a code outside classes_
Invertible(encoder, code) == code >= 0 /\ code < Len(encoder.classes)

InverseTransform(encoder, code) == encoder.classes[code + 1]

\* predict(patient_data, top_k) on the current fields, where predict_proba
\* answers `probabilities` and the model's own predict would answer class code
\* `point`: how the call ends, what it returns, what it handed to the scaler
predict(rec, top_k, probabilities, point) ==
    LET expected == ExpectedColumns(label_encoders)
        model == models[best_model]
        encoder == Get(label_encoders, "diagnosis")
        top == TopIndices(probabilities, top_k)
        codes == IF HasPredictProba(best_model)
                 THEN [i \in 1..Len(top) |-> model.classes[top[i]]]
                 ELSE <<point>>
        raised(what, made) ==
            [outcome |-> what, predictions |-> <<>>,
             handed |-> [made |-> made, columns |-> IF made THEN expected ELSE <<>>]]
    IN IF best_model = None THEN raised("ModelNotTrained", FALSE)
       ELSE IF \E i \in 1..Len(label_encoders) :
                   /\ label_encoders[i].key # "diagnosis"
                   /\ label_encoders[i].key \in DOMAIN rec
                   /\ ~Transformable(label_encoders[i].value, rec[label_encoders[i].key])
            THEN raised("UnknownCategory", FALSE)
       ELSE IF ~ScalerAccepts(scaler, expected, checks_feature_names)
            THEN raised("SchemaMismatch", TRUE)
       ELSE IF model.n_features_in # Len(expected)
            THEN raised("FeatureCount", TRUE)
       ELSE IF ~HasKey(label_encoders, "diagnosis")
            THEN raised("KeyError", TRUE)
       ELSE IF \E i \in 1..Len(codes) : ~Invertible(encoder, codes[i])
            THEN raised("UnknownLabel", TRUE)
       ELSE [outcome |-> "returned",
             predictions |->
                IF HasPredictProba(best_model)
                THEN [i \in 1..Len(top) |->
                        [diagnosis |-> InverseTransform(encoder, codes[i]),
                         confidence |-> probabilities[top[i]],
                         probability |-> probabilities[top[i]]]]
                ELSE <<[diagnosis |-> InverseTransform(encoder, point),
                        confidence |-> ProbUnits, probability |-> ProbUnits]>>,
             handed |-> [made |-> TRUE, columns |-> expected]]

\* the class count of the selected model (1 when there is none, so that the
\* inputs below are defined)
NClasses == IF best_model = None THEN 1 ELSE Max(1, Len(models[best_model].classes))

Predict(rec, top_k, probabilities) ==
    /\ calls < MaxCalls
    /\ calls' = calls + 1
    /\ LET res == predict(rec, top_k, probabilities, 0)
       IN /\ call' = [NoCall EXCEPT !.op = "predict", !.outcome = res.outcome,
                                    !.top_k = top_k]
          /\ handed' = res.handed
          /\ returned' = [Nothing EXCEPT !.predictions = res.predictions]
    /\ label_encoders' =
          IF best_model = None THEN label_encoders
          ELSE EncodersAfterPredict(label_encoders, rec)
    /\ UNCHANGED <<models, scaler, feature_importance, best_model, model_performance,
                   checks_feature_names, run, completed, perf_run, fi_run>>

(* ------------------------------------------------------ explain_prediction *)

\* get_feature_importance(model_name=None)
get_feature_importance ==
    LET model_name == Lower(TypeName(best_model))
    IN IF HasKey(feature_importance, model_name)
       THEN Get(feature_importance, model_name)
       ELSE <<>>

\* sorted(importance.items(), key=lambda x: x[1], reverse=True): descending
\* value, equal values in their dict order
SortedDescending(items) ==
    LET rank(i) == 1 + Cardinality({j \in 1..Len(items) :
                        \/ items[j].value > items[i].value
                        \/ (items[j].value = items[i].value /\ j < i)})
    IN [r \in 1..Len(items) |-> items[CHOOSE i \in 1..Len(items) : rank(i) = r]]

\* sorted_features[:5]
KeyFactors(importance) == SliceTo(SortedDescending(importance), 5)

Explain(rec, probabilities) ==
    /\ calls < MaxCalls
    /\ calls' = calls + 1
    /\ LET importance == get_feature_importance
           res == predict(rec, 1, probabilities, 0)
       IN /\ call' = [NoCall EXCEPT !.op = "explain", !.outcome = res.outcome,
                                    !.top_k = 1]
          /\ handed' = res.handed
          /\ returned' =
                IF res.outcome # "returned" THEN Nothing
                ELSE [Nothing EXCEPT !.predictions = SliceTo(res.predictions, 1),
                                     !.feature_importance = importance,
                                     !.key_factors = KeyFactors(importance)]
    /\ label_encoders' =
          IF best_model = None THEN label_encoders
          ELSE EncodersAfterPredict(label_encoders, rec)
    /\ UNCHANGED <<models, scaler, feature_importance, best_model, model_performance,
                   checks_feature_names, run, completed, perf_run, fi_run>>

(* ---------------------------------------------------------- specification *)

Accuracies == [RosterNames -> 0..MaxAcc]

TrainAny ==
    \E ds \in Datasets, labels \in LabelSets, acc \in Accuracies,
       failAt \in 1..(Len(Roster) + 1) :
        Train(ds, labels, acc, failAt)

PredictAny ==
    \E rec \in Records, top_k \in TopKs, probabilities \in ProbaVectors(NClasses) :
        Predict(rec, top_k, probabilities)

ExplainAny ==
    \E rec \in Records, probabilities \in ProbaVectors(NClasses) :
        Explain(rec, probabilities)

Next == TrainAny \/ PredictAny \/ ExplainAny

Spec == Init /\ [][Next]_vars

\* The same machine with train() fed from a shorter list of runs: a dataset
\* with one categorical or one numeric feature, every label set, accuracies
\* that select the first or the last roster entry, and a run that either
\* completes or raises in its last pass.
ServingDatasets == {<<"gender">>, <<"age">>}

ServingAccuracies ==
    {[m \in RosterNames |-> MaxAcc],
     [m \in RosterNames |-> IF m = Roster[Len(Roster)] THEN MaxAcc ELSE 0]}

TrainServing ==
    \E ds \in ServingDatasets, labels \in LabelSets, acc \in ServingAccuracies,
       failAt \in {Len(Roster), Len(Roster) + 1} :
        Train(ds, labels, acc, failAt)

NextServing == TrainServing \/ PredictAny \/ ExplainAny

SpecServing == Init /\ [][NextServing]_vars

(* ------------------------------------------------------------ properties *)

\* some train() call has returned its report
trained == completed > 0

\* the last call was a train() call that returned its report
TrainReturned == call.op = "train" /\ call.outcome = "returned"

\* every roster entry was scored by the latest train() call, and that call is
\* the last thing that fitted anything
LatestRunComplete == run > 0 /\ \A m \in RosterNames : perf_run[m] = run

\* the categorical feature columns of a list of columns
CategoricalOf(columns) == {c \in Range(columns) : IsObject(c)}

\* the roster entry with the highest accuracy in model_performance, the first
\* such entry in roster order
FirstBest ==
    LET a(i) == Get(model_performance, Roster[i]).accuracy
    IN Roster[CHOOSE i \in 1..Len(Roster) :
                 /\ \A j \in 1..Len(Roster) : a(j) <= a(i)
                 /\ \A j \in 1..(i - 1) : a(j) < a(i)]

\* C1: whenever predict reaches scaler.transform, the column list it hands
\* over is the list the scaler was fitted on in preprocess_data (the training
\* columns without 'diagnosis'), same count and same order.  A column absent
\* from the record is filled with 0, so every training column can be supplied.
C1_ScalerColumnsMatchTraining ==
    (LatestRunComplete /\ handed.made) => handed.columns = scaler.feature_names_in

\* C2: a predict or explain_prediction call made while no train() call has yet
\* returned its report raises the model-not-trained error.
C2_InferenceBeforeTrainingRaises ==
    (~trained /\ call.op \in {"predict", "explain"})
        => call.outcome = "ModelNotTrained"

\* C3: a train() call that returns has selected the roster entry with the
\* highest held-out accuracy of the run, the first one in roster order on a tie.
C3_SelectsFirstMaximum ==
    TrainReturned => best_model = FirstBest

\* C4: when the fit of one roster entry raises after an earlier entry was
\* fitted, train() still returns its report and does not select the failed entry.
C4_FitFailureIsConfined ==
    (call.op = "train" /\ call.failed \in 2..Len(Roster))
        => (call.outcome = "returned" /\ best_model # Roster[call.failed])

\* rec lacks exactly one of the columns the latest training data had, and its
\* categorical values are ones the encoders saw
OmitsOneFeature(rec) ==
    /\ Cardinality(Range(scaler.feature_names_in) \ DOMAIN rec) = 1
    /\ \A c \in DOMAIN rec : rec[c] # "X"

\* C5: after a train() call that returned and selected a model, predict on a
\* record that omits one training feature column (categorical or numeric)
\* returns, with at most top_k predictions.
C5_MissingFeatureIsFilled ==
    [][\A rec \in Records, top_k \in 0..MaxTopK, p \in ProbaVectors(NClasses) :
          (LatestRunComplete /\ best_model # None /\ OmitsOneFeature(rec)
             /\ Predict(rec, top_k, p))
          => (call'.outcome = "returned" /\ Len(returned'.predictions) <= top_k)]_vars

\* the predictions are in non-increasing confidence, confidence is the
\* probability and lies in [0, 1], and the diagnoses are pairwise distinct
\* labels of the diagnosis encoder
WellFormed(predictions) ==
    /\ \A i, j \in 1..Len(predictions) :
          i < j => /\ predictions[i].confidence >= predictions[j].confidence
                   /\ predictions[i].diagnosis # predictions[j].diagnosis
    /\ \A i \in 1..Len(predictions) :
          /\ predictions[i].confidence = predictions[i].probability
          /\ predictions[i].confidence \in 0..ProbUnits
          /\ predictions[i].diagnosis \in Range(Get(label_encoders, "diagnosis").classes)

ProbaPredictReturned ==
    /\ call.op = "predict"
    /\ call.outcome = "returned"
    /\ HasPredictProba(best_model)

\* C6: after a train() call that returned, predict(record, top_k) on a model
\* with predict_proba returns exactly min(top_k, number of classes) well-formed
\* predictions, never more than top_k.
C6_TopKPredictions ==
    (LatestRunComplete /\ ProbaPredictReturned)
        => /\ Len(returned.predictions)
                = Min(call.top_k, Len(models[best_model].classes))
           /\ Len(returned.predictions) <= call.top_k
           /\ WellFormed(returned.predictions)

\* C6, amended: whenever predict returns on a model with predict_proba, the
\* same holds for top_k >= 0; for a negative top_k the slice [:top_k] drops the
\* -top_k least probable classes instead.
C6_TopKPredictionsNonNegative ==
    ProbaPredictReturned
        => /\ call.top_k >= 0
                => /\ Len(returned.predictions)
                        = Min(call.top_k, Len(models[best_model].classes))
                   /\ Len(returned.predictions) <= call.top_k
           /\ call.top_k < 0
                => Len(returned.predictions)
                        = Max(0, Len(models[best_model].classes) + call.top_k)
           /\ WellFormed(returned.predictions)

\* a predict call with top_k = 1 on a two-class model returned the single
\* most probable diagnosis
C6_Witness ==
    /\ ProbaPredictReturned
    /\ call.top_k = 1
    /\ Len(models[best_model].classes) = 2
    /\ Len(returned.predictions) = 1
    /\ returned.predictions[1].confidence = ProbUnits

\* the importances train() stored for the selected model
Captured ==
    IF HasKey(feature_importance, best_model)
    THEN Get(feature_importance, best_model) ELSE <<>>

\* C7: after a train() call that returned, explain_prediction returns as
\* feature_importance the mapping stored for the selected model, empty only
\* if that model has no feature_importances_, and as key_factors its (at most)
\* five heaviest items in descending order.
C7_ExplainReturnsImportance ==
    (call.op = "explain" /\ call.outcome = "returned" /\ LatestRunComplete)
        => /\ returned.feature_importance = Captured
           /\ returned.feature_importance = <<>> => ~HasFeatureImportances(best_model)
           /\ returned.key_factors = KeyFactors(Captured)

\* C8: a predict or explain_prediction call, returning or raising, leaves
\* best_model, scaler, label_encoders, feature_importance, model_performance
\* and the fitted estimators as they were.
C8_InferenceKeepsServingState ==
    [][call'.op \in {"predict", "explain"} => UNCHANGED serving]_vars

\* a predict call returned on a trained model that holds a categorical encoder
\* besides the diagnosis encoder, so the encoder loop of predict has run
C8_Witness ==
    /\ trained
    /\ call.op = "predict"
    /\ call.outcome = "returned"
    /\ Len(label_encoders) > 1

\* C9: when train() returns, best_model is a roster instance and the reported
\* best_accuracy is the accuracy this run stored for it in model_performance.
C9_ReportMatchesSelection ==
    TrainReturned
        => /\ best_model \in RosterNames
           /\ perf_run[best_model] = run
           /\ returned.best_model = TypeName(best_model)
           /\ returned.best_accuracy = Get(model_performance, best_model).accuracy

\* C10: after train() calls that all returned, the keys of label_encoders
\* other than 'diagnosis' are the categorical feature columns of the latest
\* call's dataset, and every entry of feature_importance and model_performance
\* was written by that call.
C10_FittedStateIsLatestRun ==
    (TrainReturned /\ completed = run)
        => /\ Range(ExpectedColumns(label_encoders)) = CategoricalOf(call.data)
           /\ \A m \in Range(Keys(feature_importance)) : fi_run[m] = run
           /\ \A m \in Range(Keys(model_performance)) : perf_run[m] = run

====
